---------------------------- MODULE Spec2Model ----------------------------
(***************************************************************************)
(* Model of the signing path of asy-backend-core:                          *)
(*   SignatureViewSet.create        (documents/api/views.py)               *)
(*   SignatureAgent.process_document and _process_single_attachment        *)
(*                                  (documents/services/sign_document.py)  *)
(* One document with three attachments is signed by a sequence of          *)
(* sequential POST /signatures/ requests.  File content is modelled as a   *)
(* pristine base plus the list of stamp layers baked into it, so that a    *)
(* restore from the backup and a compounded stamp are distinguishable.     *)
(***************************************************************************)
EXTENDS Integers, Sequences, FiniteSets, TLC

\* Number of signing requests explored.
MaxReq == 3

\* The attachments of the document, numbered in creation order.
Attachments == {1, 2, 3}

\* File extensions an attachment can carry (".gif" passes the upload
\* validation of an image document but is no engine-supported image).
Extensions == {".pdf", ".png", ".gif"}

IMAGE_EXTENSIONS == {".png", ".jpg", ".jpeg"}

\* An unset FileField.
NoFile == [base |-> 0, layers |-> <<>>]

\* The content each attachment was uploaded with.
Pristine(a) == [base |-> a, layers |-> <<>>]

VARIABLES
    ext,            \* attachment -> extension of attachment.file.name
    file,           \* attachment -> content of attachment.file
    original_file,  \* attachment -> content of attachment.original_file, or NoFile
    version_number, \* attachment -> version_number
    is_signed,      \* attachment -> is_signed
    signatures,     \* the Signature table
    status,         \* document.status
    comments,       \* document.comments
    requests,       \* number of requests handled so far
    last,           \* the request handled last and how it was classified
    resigns,        \* attachment -> number of requests that found a prior signature (history)
    calc            \* the call of a pure function of the engine under study, with its result

vars == <<ext, file, original_file, version_number, is_signed, signatures,
          status, comments, requests, last, resigns, calc>>

\* The persisted state and the request history.
storeVars == <<ext, file, original_file, version_number, is_signed, signatures,
               status, comments, requests, last, resigns>>

\* No call under study.
NoCalc == [op |-> "none"]

-----------------------------------------------------------------------------
(* Payload decoding *)

\* The payload strings a request can carry, by name.
Payloads == {"none", "", "garbage", "img1", "img2"}

DecodeError == "error"
NoArtifact == "null"

\* Python None, as a value next to the strings.
NoneValue == <<"None">>

\* A string is a sequence of tokens: " " is a whitespace character, "P" the
\* substring 'base64,', "A" and "B" the base64 text of two images, "x"
\* base64 text that is no image.
Tokens == {" ", "P", "A", "B", "x"}

\* The string each payload name stands for.
PayloadValue(name) ==
    CASE name = "none"    -> NoneValue
      [] name = ""        -> <<>>
      [] name = "garbage" -> <<"x">>
      [] name = "img1"    -> <<"A">>
      [] name = "img2"    -> <<"B">>

\* 'base64,' in s
HasPrefix(s) == \E i \in 1..Len(s) : s[i] = "P"

\* The positions of 'base64,' in s, and s.split('base64,')[1].
PrefixAt(s, n) == {i \in n..Len(s) : s[i] = "P"}

FirstPrefix(s, n) == CHOOSE i \in PrefixAt(s, n) : \A j \in PrefixAt(s, n) : i <= j

SplitSecond(s) ==
    LET i == FirstPrefix(s, 1)
        j == IF PrefixAt(s, i + 1) = {} THEN Len(s) + 1 ELSE FirstPrefix(s, i + 1)
    IN  SubSeq(s, i + 1, j - 1)

\* s.strip() == ''
IsWhitespace(s) == \A i \in 1..Len(s) : s[i] = " "

\* Image.open(BytesIO(base64.b64decode(s))): b64decode drops the characters
\* outside the base64 alphabet; what is left must be the bytes of an image.
OpenImage(s) ==
    LET data == SelectSeq(s, LAMBDA c : c # " ")
    IN  IF data = <<"A">> THEN "img1"
        ELSE IF data = <<"B">> THEN "img2"
        ELSE DecodeError

\* Faulty variant: the empty payload is handed to the image decoder.
_decode_signature_NoEmptyGuard(data) ==
    IF data = NoneValue THEN NoArtifact
    ELSE OpenImage(IF HasPrefix(data) THEN SplitSecond(data) ELSE data)

\* _decode_signature
_decode_signature(data) ==
    IF data = NoneValue \/ data = <<>> THEN NoArtifact
    ELSE OpenImage(IF HasPrefix(data) THEN SplitSecond(data) ELSE data)

\* _decode_comments
_decode_comments(data) ==
    IF data = NoneValue \/ data = <<>> THEN NoArtifact
    ELSE LET base64_str == IF HasPrefix(data) THEN SplitSecond(data) ELSE data
         IN  IF base64_str = <<>> \/ IsWhitespace(base64_str) THEN NoArtifact
             ELSE OpenImage(base64_str)

\* _normalize_department_list: a list keeps its non-blank entries.
_normalize_department_list(value) ==
    SelectSeq(value, LAMBDA x : x # " ")

-----------------------------------------------------------------------------
(* File type predicates *)

_is_pdf(e) == e = ".pdf"

_is_image(e) == e \in IMAGE_EXTENSIONS

-----------------------------------------------------------------------------
(* Stamping *)

\* _add_signature_to_pdf / _add_signature_to_image: the output is the input
\* content with the artifacts of this pass composited onto it.
Stamp(content, art) == [content EXCEPT !.layers = Append(@, art)]

\* Meta.ordering = ['-created_at']: attachments.all() yields newest first.
AttachmentOrder == <<3, 2, 1>>


\* Faulty variant: the stamped file is stored but is_signed is not set.
_process_single_attachment_NoFlag(st, a, art, fault, e) ==
    IF ~(_is_pdf(e[a]) \/ _is_image(e[a]))
    THEN [st EXCEPT !.ok = FALSE, !.error = "unsupported"]
    ELSE IF a = fault
    THEN [st EXCEPT !.ok = FALSE, !.error = "codec"]
    ELSE [st EXCEPT !.file[a] = Stamp(@, art)]

\* _process_single_attachment: read attachment.file, stamp it, store the
\* result as the new attachment.file and set is_signed.  fault is the
\* attachment whose codec call raises in this pass (0: none).
_process_single_attachment(st, a, art, fault, e) ==
    IF ~(_is_pdf(e[a]) \/ _is_image(e[a]))
    THEN [st EXCEPT !.ok = FALSE, !.error = "unsupported"]
    ELSE IF a = fault
    THEN [st EXCEPT !.ok = FALSE, !.error = "codec"]
    ELSE [st EXCEPT !.file[a] = Stamp(@, art), !.is_signed[a] = TRUE]

\* Faulty variant: the loop ends after the first attachment.
ProcessAllAttachments_FirstOnly(st, todo, art, fault, e) ==
    IF todo = <<>> \/ ~st.ok THEN st
    ELSE IF _is_image(e[Head(todo)])
         THEN _process_single_attachment(st, Head(todo), art, fault, e)
         ELSE st

\* The image branch of process_document: every image attachment of the
\* document is processed in turn; an exception ends the loop.
RECURSIVE ProcessAllAttachments(_, _, _, _, _)
ProcessAllAttachments(st, todo, art, fault, e) ==
    IF todo = <<>> \/ ~st.ok THEN st
    ELSE LET a == Head(todo)
             st1 == IF _is_image(e[a])
                    THEN _process_single_attachment(st, a, art, fault, e)
                    ELSE st
         IN  ProcessAllAttachments(st1, Tail(todo), art, fault, e)

\* Faulty variant: a target of another format is accepted and the pass
\* reported as done.
process_document_AnyFormat(st, t, req, e) ==
    LET sig == _decode_signature(PayloadValue(req.signature_data))
        com == _decode_comments(PayloadValue(req.comments_data))
    IN  IF sig = DecodeError \/ com = DecodeError
        THEN [st EXCEPT !.ok = FALSE, !.error = "decode"]
        ELSE LET art == [sig |-> sig, com |-> com,
                         depts |-> _normalize_department_list(req.department_list)]
                 st1 == IF _is_pdf(e[t])
                        THEN _process_single_attachment(st, t, art, req.fault, e)
                        ELSE IF _is_image(e[t])
                        THEN ProcessAllAttachments(st, AttachmentOrder, art, req.fault, e)
                        ELSE st
             IN  IF st1.ok THEN [st1 EXCEPT !.status = "signed"] ELSE st1

\* Faulty variant: the status is set before the attachments are processed.
process_document_StatusFirst(st, t, req, e) ==
    LET sig == _decode_signature(PayloadValue(req.signature_data))
        com == _decode_comments(PayloadValue(req.comments_data))
    IN  IF sig = DecodeError \/ com = DecodeError
        THEN [st EXCEPT !.ok = FALSE, !.error = "decode"]
        ELSE LET art == [sig |-> sig, com |-> com,
                         depts |-> _normalize_department_list(req.department_list)]
                 st0 == [st EXCEPT !.status = "signed"]
             IN  IF _is_pdf(e[t])
                 THEN _process_single_attachment(st0, t, art, req.fault, e)
                 ELSE IF _is_image(e[t])
                 THEN ProcessAllAttachments(st0, AttachmentOrder, art, req.fault, e)
                 ELSE [st0 EXCEPT !.ok = FALSE, !.error = "unsupported"]

\* process_document for the signature of request req on attachment t.
\* st = [file, is_signed, status, ok, error]; ok = FALSE when an exception
\* leaves, error says which: "decode" (Failed to decode ...), "unsupported"
\* (Unsupported file format), "codec" (Failed to process PDF / image).
process_document(st, t, req, e) ==
    LET sig == _decode_signature(PayloadValue(req.signature_data))
        com == _decode_comments(PayloadValue(req.comments_data))
    IN  IF sig = DecodeError \/ com = DecodeError
        THEN [st EXCEPT !.ok = FALSE, !.error = "decode"]
        ELSE LET art == [sig |-> sig, com |-> com,
                         depts |-> _normalize_department_list(req.department_list)]
                 st1 == IF _is_pdf(e[t])
                        THEN _process_single_attachment(st, t, art, req.fault, e)
                        ELSE IF _is_image(e[t])
                        THEN ProcessAllAttachments(st, AttachmentOrder, art, req.fault, e)
                        ELSE [st EXCEPT !.ok = FALSE, !.error = "unsupported"]
             IN  IF st1.ok THEN [st1 EXCEPT !.status = "signed"] ELSE st1

-----------------------------------------------------------------------------
(* SignatureViewSet.create *)

\* existing_signatures.exists()
HasSignature(sigs, t) == \E s \in sigs : s.attachment = t

\* Faulty variant: the backup is taken on every request, set or not.
BackupOriginal_Always(orig, f, t) == [orig EXCEPT ![t] = f[t]]

\* "if not attachment.original_file": copy the current file into it.
BackupOriginal(orig, f, t) ==
    IF orig[t] = NoFile THEN [orig EXCEPT ![t] = f[t]] ELSE orig

\* "if attachment.original_file": shutil.copy2(original_path, current_path)
RestoreOriginal(f, orig, t) ==
    IF orig[t] # NoFile THEN [f EXCEPT ![t] = orig[t]] ELSE f

\* Faulty variant: the prior signature records are kept.
DeleteSignatures_None(sigs, t) == sigs

\* existing_signatures.delete()
DeleteSignatures(sigs, t) == {s \in sigs : s.attachment # t}

\* Faulty variant: the replacement branch forgets the increment.
IncrementVersion_Never(ver, t) == ver

\* attachment.version_number += 1
IncrementVersion(ver, t) == [ver EXCEPT ![t] = @ + 1]

\* Faulty variant: the sibling loop does not exclude the signed attachment.
PropagateVersion_IncludingTarget(ver, t, e) ==
    IF _is_image(e[t]) /\ ver[t] > 1
    THEN [a \in Attachments |-> IF _is_image(e[a]) THEN ver[a] + 1 ELSE ver[a]]
    ELSE ver

\* Faulty variant: the sibling loop runs whatever the extension of the target.
PropagateVersion_AnyTarget(ver, t, e) ==
    IF ver[t] > 1
    THEN [a \in Attachments |->
            IF a # t /\ _is_image(e[a]) THEN ver[a] + 1 ELSE ver[a]]
    ELSE ver

\* The version bump of the other image attachments of an image document.
PropagateVersion(ver, t, e) ==
    IF _is_image(e[t]) /\ ver[t] > 1
    THEN [a \in Attachments |->
            IF a # t /\ _is_image(e[a]) THEN ver[a] + 1 ELSE ver[a]]
    ELSE ver

\* serializer.save(signed_by=request.user)
NewSignature(id, t, req) ==
    [id |-> id, attachment |-> t,
     signature_data |-> req.signature_data, comments_data |-> req.comments_data]

\* The request bodies explored: a signature only; signature, comments and
\* departments; nothing at all; an undecodable signature; undecodable
\* comments; a signature with a codec failure on attachment 1.
RequestBodies ==
    { [signature_data |-> "img1", comments_data |-> "", department_list |-> <<>>, fault |-> 0],
      [signature_data |-> "img2", comments_data |-> "img1", department_list |-> <<"d1", " ">>, fault |-> 0],
      [signature_data |-> "", comments_data |-> "none", department_list |-> <<>>, fault |-> 0],
      [signature_data |-> "garbage", comments_data |-> "", department_list |-> <<>>, fault |-> 0],
      [signature_data |-> "img1", comments_data |-> "garbage", department_list |-> <<>>, fault |-> 0],
      [signature_data |-> "img1", comments_data |-> "", department_list |-> <<>>, fault |-> 1] }

NoRequest == [signature_data |-> "none", comments_data |-> "none", department_list |-> <<>>, fault |-> 0]

\* POST /signatures/ with a valid body for attachment t.
SignatureCreate(t, req) ==
    /\ requests < MaxReq
    /\ LET resign == HasSignature(signatures, t)
           orig1  == BackupOriginal(original_file, file, t)
           file1  == IF resign THEN RestoreOriginal(file, orig1, t) ELSE file
           sigs1  == IF resign THEN DeleteSignatures(signatures, t) ELSE signatures
           ver1   == IF resign THEN IncrementVersion(version_number, t) ELSE version_number
           sigs2  == sigs1 \cup {NewSignature(requests + 1, t, req)}
           ver2   == PropagateVersion(ver1, t, ext)
           st     == process_document(
                        [file |-> file1, is_signed |-> is_signed, status |-> status,
                         ok |-> TRUE, error |-> "none"],
                        t, req, ext)
       IN  /\ original_file' = orig1
           /\ signatures' = sigs2
           /\ version_number' = ver2
           /\ file' = st.file
           /\ is_signed' = st.is_signed
           /\ status' = st.status
           /\ comments' = "user comments"
           /\ resigns' = IF resign THEN [resigns EXCEPT ![t] = @ + 1] ELSE resigns
           /\ last' = [target |-> t, resign |-> resign, body |-> req,
                       response |-> IF st.ok THEN 201 ELSE 500, error |-> st.error]
    /\ requests' = requests + 1
    /\ UNCHANGED <<ext, calc>>

\* POST /signatures/ whose body the serializer rejects (unknown attachment).
SignatureCreateInvalid ==
    /\ requests < MaxReq
    /\ requests' = requests + 1
    /\ last' = [target |-> 0, resign |-> FALSE, body |-> NoRequest, response |-> 400,
                error |-> "invalid"]
    /\ UNCHANGED <<ext, file, original_file, version_number, is_signed,
                   signatures, status, comments, resigns, calc>>

\* A freshly uploaded document whose attachments have the extensions e.
Uploaded(e) ==
    /\ ext = e
    /\ file = [a \in Attachments |-> Pristine(a)]
    /\ original_file = [a \in Attachments |-> NoFile]
    /\ version_number = [a \in Attachments |-> 1]
    /\ is_signed = [a \in Attachments |-> FALSE]
    /\ signatures = {}
    /\ status = "pending"
    /\ comments = ""
    /\ requests = 0
    /\ last = [target |-> 0, resign |-> FALSE, body |-> NoRequest, response |-> 0,
               error |-> "none"]
    /\ resigns = [a \in Attachments |-> 0]

Init ==
    /\ ext \in [Attachments -> Extensions]
    /\ file = [a \in Attachments |-> Pristine(a)]
    /\ original_file = [a \in Attachments |-> NoFile]
    /\ version_number = [a \in Attachments |-> 1]
    /\ is_signed = [a \in Attachments |-> FALSE]
    /\ signatures = {}
    /\ status = "pending"
    /\ comments = ""
    /\ requests = 0
    /\ last = [target |-> 0, resign |-> FALSE, body |-> NoRequest, response |-> 0,
               error |-> "none"]
    /\ resigns = [a \in Attachments |-> 0]
    /\ calc = NoCalc

Next ==
    \/ \E t \in Attachments, req \in RequestBodies : SignatureCreate(t, req)
    \/ SignatureCreateInvalid

Spec == Init /\ [][Next]_vars

-----------------------------------------------------------------------------
(* Properties *)

SignaturesOf(a) == {s \in signatures : s.attachment = a}

OtherImages(a) == {b \in Attachments \ {a} : _is_image(ext[b])}

\* A pass without signature, comments and departments pastes nothing.
IsBlank(art) == art.sig = NoArtifact /\ art.com = NoArtifact /\ art.depts = <<>>

\* The stamp layers of a content that pasted at least one artifact.
VisibleLayers(content) == SelectSeq(content.layers, LAMBDA art : ~IsBlank(art))

\* C1: no attachment ever carries two stamp layers: the content of every
\* attachment is its pristine content with the artifacts of at most one
\* signing pass on it.
C1_NoCompoundStamps ==
    \A a \in Attachments :
        file[a].base = a /\ Len(VisibleLayers(file[a])) <= 1

\* C2: once attachment A has been signed and re-signed, the content of its
\* original_file is the content A held before any pass stamped it.
C2_BaselineIsPristine ==
    \A a \in Attachments :
        resigns[a] >= 1 =>
            original_file[a].base = a /\ VisibleLayers(original_file[a]) = <<>>

\* C3: original_file is write-once: a set original_file refers to the same
\* content after every later request, successful or failed.
C3_OriginalWriteOnce ==
    [][\A a \in Attachments :
          original_file[a] # NoFile => original_file'[a] = original_file[a]]_vars

\* C3 witness: a backup that has lived through two later re-signs, the last
\* of which failed.
C3_Witness ==
    \E a \in Attachments :
        /\ original_file[a] # NoFile
        /\ resigns[a] >= 2
        /\ last.target = a
        /\ last.response = 500

\* C4 as claimed: the version of every attachment is 1 + the number of
\* times it was re-signed.
C4_VersionIsOnePlusResigns ==
    \A a \in Attachments : version_number[a] = 1 + resigns[a]

\* C4 amended: the version of an attachment is at least 1 + the number of
\* times it was re-signed, and exactly that for an attachment that is no
\* image or has no image sibling to receive a propagated bump from.
C4_VersionAtLeastOnePlusResigns ==
    \A a \in Attachments :
        /\ version_number[a] >= 1 + resigns[a]
        /\ (~_is_image(ext[a]) \/ OtherImages(a) = {})
              => version_number[a] = 1 + resigns[a]

\* C4 witness: a PDF signed and re-signed twice next to an image
\* attachment stands at version 3.
C4_Witness ==
    \E a \in Attachments :
        /\ _is_pdf(ext[a]) /\ resigns[a] = 2 /\ version_number[a] = 3
        /\ OtherImages(a) # {}

\* C5: a request whose target has no signature record leaves the version
\* of every attachment unchanged.
C5_FirstSigningKeepsVersions ==
    [][(last'.target # 0 /\ ~last'.resign) => version_number' = version_number]_vars

\* C6: a re-sign of an image attachment raises the version of the target
\* and of every other image attachment by exactly 1 and leaves the version
\* of the attachments that are no images unchanged.
C6_ResignBumpsImagesOnce ==
    [][(last'.target # 0 /\ last'.resign /\ _is_image(ext[last'.target])) =>
          \A a \in Attachments :
              version_number'[a] =
                  IF _is_image(ext[a]) THEN version_number[a] + 1
                                       ELSE version_number[a]]_vars

\* C6 witness: an image target was re-signed next to an image sibling and
\* an attachment that is no image.
C6_Witness ==
    /\ last.target # 0
    /\ last.resign
    /\ _is_image(ext[last.target])
    /\ OtherImages(last.target) # {}
    /\ \E a \in Attachments : ~_is_image(ext[a]) /\ version_number[a] = 1
    /\ version_number[last.target] = 2

\* C7: a successful re-sign leaves the target with its pristine content
\* stamped by the artifacts of this pass alone (no artifact of an earlier
\* pass under it), its prior signature records gone and its version raised
\* by 1.
C7_ResignStampsPristine ==
    [][(last'.target # 0 /\ last'.resign /\ last'.response = 201) =>
          LET t == last'.target
          IN  /\ file'[t].base = t
              /\ Len(file'[t].layers) >= 1
              /\ VisibleLayers([base |-> t,
                                layers |-> SubSeq(file'[t].layers, 1,
                                                  Len(file'[t].layers) - 1)]) = <<>>
              /\ SignaturesOf(t) \cap signatures' = {}
              /\ version_number'[t] = version_number[t] + 1]_vars

\* The artifacts of a request that carries the signature image "img1" only.
SignatureOnlyBody ==
    [signature_data |-> "img1", comments_data |-> "", department_list |-> <<>>, fault |-> 0]

SignatureOnlyArt == [sig |-> "img1", com |-> NoArtifact, depts |-> <<>>]

\* C8: the first signing of a PDF or image attachment that has no
\* original_file and version 1, with a signature image and no comments or
\* departments, succeeds and ends with original_file holding the pre-sign
\* content, file the stamped render of it, is_signed set and the document
\* status 'signed'.
C8_FirstSignature ==
    [][(/\ last'.target # 0
        /\ ~last'.resign
        /\ last'.body = SignatureOnlyBody
        /\ original_file[last'.target] = NoFile
        /\ version_number[last'.target] = 1
        /\ (_is_pdf(ext[last'.target]) \/ _is_image(ext[last'.target]))) =>
          LET t == last'.target
          IN  /\ last'.response = 201
              /\ original_file'[t] = file[t]
              /\ file'[t] = Stamp(file[t], SignatureOnlyArt)
              /\ file'[t] # file[t]
              /\ is_signed'[t]
              /\ status' = "signed"]_vars

\* C8 witness: the first request signed a pristine attachment.
C8_Witness ==
    /\ requests = 1
    /\ last.target # 0
    /\ last.body = SignatureOnlyBody
    /\ last.response = 201
    /\ original_file[last.target] = Pristine(last.target)
    /\ file[last.target] = Stamp(Pristine(last.target), SignatureOnlyArt)
    /\ status = "signed"

\* C9: after every signing request the target has exactly one signature
\* record, the one this request created, and no attachment has two.
C9_SingleActiveSignature ==
    /\ last.target # 0 =>
          SignaturesOf(last.target) = {NewSignature(requests, last.target, last.body)}
    /\ \A a \in Attachments : Cardinality(SignaturesOf(a)) <= 1

\* C9 witness: a re-signed attachment holds the record of the re-sign.
C9_Witness ==
    /\ last.target # 0
    /\ resigns[last.target] = 2
    /\ last.resign
    /\ Cardinality(SignaturesOf(last.target)) = 1
    /\ \E s \in SignaturesOf(last.target) : s.id = 3

\* C10: a pass on a PDF target leaves content, is_signed and version of
\* every other attachment of the document unchanged.
C10_PdfTouchesTargetOnly ==
    [][(last'.target # 0 /\ _is_pdf(ext[last'.target])) =>
          \A a \in Attachments \ {last'.target} :
              /\ file'[a] = file[a]
              /\ is_signed'[a] = is_signed[a]
              /\ version_number'[a] = version_number[a]]_vars

\* C10 witness: a PDF was re-signed successfully next to two image
\* attachments, which are still unsigned at version 1.
C10_Witness ==
    /\ last.target # 0
    /\ _is_pdf(ext[last.target])
    /\ last.resign
    /\ last.response = 201
    /\ version_number[last.target] = 2
    /\ Cardinality(OtherImages(last.target)) = 2
    /\ \A a \in OtherImages(last.target) :
          ~is_signed[a] /\ version_number[a] = 1 /\ file[a] = Pristine(a)

\* The stamp layer a content received last.
LastLayer(content) == content.layers[Len(content.layers)]

\* C11: a successful pass on an image target stamps every image attachment
\* of the document (new content, is_signed set) and leaves content and
\* is_signed of every attachment that is no image unchanged.
C11_ImageFanOut ==
    [][(last'.target # 0 /\ _is_image(ext[last'.target]) /\ last'.response = 201) =>
          \A a \in Attachments :
              IF _is_image(ext[a])
              THEN /\ Len(file'[a].layers) >= 1
                   /\ file'[a] = Stamp([file'[a] EXCEPT !.layers =
                                           SubSeq(@, 1, Len(@) - 1)],
                                       LastLayer(file'[last'.target]))
                   /\ a # last'.target => file'[a] = Stamp(file[a], LastLayer(file'[a]))
                   /\ is_signed'[a]
              ELSE file'[a] = file[a] /\ is_signed'[a] = is_signed[a]]_vars

\* C11 witness: an image target was signed next to an image sibling and a
\* PDF; both images are signed, the PDF is untouched.
C11_Witness ==
    /\ last.target # 0
    /\ _is_image(ext[last.target])
    /\ last.response = 201
    /\ OtherImages(last.target) # {}
    /\ \A a \in OtherImages(last.target) : is_signed[a] /\ file[a] # Pristine(a)
    /\ \E a \in Attachments : _is_pdf(ext[a]) /\ ~is_signed[a] /\ file[a] = Pristine(a)

\* C12: every attachment with is_signed set has its original_file set.
C12_SignedHasBackup ==
    \A a \in Attachments : is_signed[a] => original_file[a] # NoFile

\* C13: a pass that fails leaves content and is_signed of every attachment
\* as they were (stated for first signings, where the view restores
\* nothing before the pass).
C13_NoPartialPersistence ==
    [][(last'.target # 0 /\ ~last'.resign /\ last'.response = 500) =>
          \A a \in Attachments :
              file'[a] = file[a] /\ is_signed'[a] = is_signed[a]]_vars

\* The attachments a pass on target t selects.
Selected(t) ==
    IF _is_pdf(ext[t]) THEN {t}
    ELSE IF _is_image(ext[t]) THEN {a \in Attachments : _is_image(ext[a])}
    ELSE {}

\* C14: a failed pass leaves the document status as it was; a pass that
\* does not fail ends with status 'signed' and with every attachment it
\* selected written and signed.
C14_StatusAfterAttachments ==
    [][last'.target # 0 =>
          /\ last'.response = 500 => status' = status
          /\ last'.response = 201 =>
                /\ status' = "signed"
                /\ \A a \in Selected(last'.target) :
                      is_signed'[a] /\ Len(file'[a].layers) >= 1]_vars

\* C14 witness: the first pass failed on the last image of a fan-out:
\* earlier images are written, the status is still 'pending'.
C14_Witness ==
    /\ requests = 1
    /\ last.response = 500
    /\ last.body.fault = 1
    /\ status = "pending"
    /\ \E a \in Attachments : is_signed[a]

\* A request with empty signature, empty comments and no departments.
EmptyBody ==
    [signature_data |-> "", comments_data |-> "none", department_list |-> <<>>, fault |-> 0]

\* C15: a request with empty signature, empty comments and no departments
\* on a PDF or image attachment succeeds, pastes nothing, persists the
\* attachment with is_signed set and sets the document status to 'signed'.
C15_EmptyArtifacts ==
    [][(/\ last'.target # 0
        /\ last'.body = EmptyBody
        /\ (_is_pdf(ext[last'.target]) \/ _is_image(ext[last'.target]))) =>
          LET t == last'.target
          IN  /\ last'.response = 201
              /\ Len(file'[t].layers) >= 1
              /\ IsBlank(LastLayer(file'[t]))
              /\ is_signed'[t]
              /\ status' = "signed"]_vars

\* C15 witness: the first request carried no artifacts and was accepted.
C15_Witness ==
    /\ requests = 1
    /\ last.target # 0
    /\ last.body = EmptyBody
    /\ last.response = 201
    /\ is_signed[last.target]
    /\ file[last.target] = Stamp(Pristine(last.target),
                                 [sig |-> NoArtifact, com |-> NoArtifact, depts |-> <<>>])
    /\ status = "signed"

-----------------------------------------------------------------------------
(* The artifact decoder on its own *)

\* Longest payload string explored.
MaxLen == 3

\* The document the pure-function studies leave untouched.
PdfDocument == [a \in Attachments |-> ".pdf"]

Strings == UNION {[1..k -> Tokens] : k \in 0..MaxLen}

DecodeInit ==
    /\ Uploaded(PdfDocument)
    /\ calc \in {[op |-> "decode", which |-> w, data |-> d, out |-> "pending"] :
                    w \in {"signature", "comments"}, d \in Strings \cup {NoneValue}}

\* process_document calls self._decode_signature()
DecodeSignature ==
    /\ calc.op = "decode" /\ calc.which = "signature" /\ calc.out = "pending"
    /\ calc' = [calc EXCEPT !.out = _decode_signature(calc.data)]
    /\ UNCHANGED storeVars

\* process_document calls self._decode_comments()
DecodeComments ==
    /\ calc.op = "decode" /\ calc.which = "comments" /\ calc.out = "pending"
    /\ calc' = [calc EXCEPT !.out = _decode_comments(calc.data)]
    /\ UNCHANGED storeVars

DecodeNext == DecodeSignature \/ DecodeComments

DecodeSpec == DecodeInit /\ [][DecodeNext]_vars

\* The payloads the contract calls "no artifact": absent, empty,
\* whitespace only, or a data URL with nothing but whitespace after
\* 'base64,'.
MissingArtifact(d) ==
    \/ d = NoneValue
    \/ d = <<>>
    \/ IsWhitespace(d)
    \/ HasPrefix(d) /\ IsWhitespace(SubSeq(d, FirstPrefix(d, 1) + 1, Len(d)))

\* C16: both decoders return 'no artifact' without raising for every
\* missing artifact, and raise only for a non-empty payload.
C16_MissingArtifactIsNull ==
    calc.out # "pending" =>
        /\ MissingArtifact(calc.data) => calc.out = NoArtifact
        /\ calc.out = DecodeError => calc.data # NoneValue /\ calc.data # <<>>

-----------------------------------------------------------------------------
(* The percentage layout calculator on its own *)

\* Largest document and element dimension explored, in pixels.
MaxDim == 4

\* Percentages are explored in steps of 1 / PctDen.
PctDen == 10

\* A percentage argument: a number num / PctDen, or something that is no
\* int or float.
Percentages ==
    {[numeric |-> TRUE, num |-> n] : n \in -1..(PctDen + 1)}
        \cup {[numeric |-> FALSE, num |-> 0]}

\* padding_percentage: None or a percentage argument.
Paddings ==
    {[given |-> TRUE, numeric |-> v.numeric, num |-> v.num] : v \in Percentages}
        \cup {[given |-> FALSE, numeric |-> FALSE, num |-> 0]}

Min2(a, b) == IF a <= b THEN a ELSE b

Max2(a, b) == IF a >= b THEN a ELSE b

\* int(x / d): truncation toward zero.
IntOf(x, d) == IF x >= 0 THEN x \div d ELSE -((-x) \div d)

\* Positions are carried multiplied by 2 * PctDen, which keeps
\* document_dimension * percentage and element_dimension / 2 integral.
Unit == 2 * PctDen

InvalidPercentage == [ok |-> FALSE, offset |-> 0]

\* Faulty variant: values above 1.0 pass.
_validate_percentage_NoUpper(v) == v.numeric /\ v.num >= 0

\* _validate_percentage: TRUE when no ValueError is raised.
_validate_percentage(v) == v.numeric /\ v.num >= 0 /\ v.num <= PctDen

\* Faulty variant: the padding branch forgets the clamp to max_position.
_calculate_percentage_position_NoMax(D, E, pct, pad, align_end) ==
    IF ~_validate_percentage(pct) THEN InvalidPercentage
    ELSE LET position == IF align_end THEN 2 * D * pct.num - Unit * E
                                      ELSE 2 * D * pct.num
         IN  IF pad.given
             THEN IF ~_validate_percentage(pad) THEN InvalidPercentage
                  ELSE [ok |-> TRUE,
                        offset |-> IntOf(Max2(2 * D * pad.num, position), Unit)]
             ELSE IF align_end
                  THEN [ok |-> TRUE, offset |-> IntOf(Max2(0, position), Unit)]
                  ELSE [ok |-> TRUE,
                        offset |-> IntOf(Max2(0, Min2(position, Unit * (D - E))), Unit)]

\* _calculate_percentage_position; align_end is align_right or align_bottom.
_calculate_percentage_position(D, E, pct, pad, align_end) ==
    IF ~_validate_percentage(pct) THEN InvalidPercentage
    ELSE LET position == IF align_end THEN 2 * D * pct.num - Unit * E
                                      ELSE 2 * D * pct.num
         IN  IF pad.given
             THEN IF ~_validate_percentage(pad) THEN InvalidPercentage
                  ELSE LET padding_pixels == 2 * D * pad.num
                           min_position == padding_pixels
                           max_position == Unit * (D - E) - padding_pixels
                       IN  [ok |-> TRUE,
                            offset |-> IntOf(Max2(min_position,
                                                  Min2(position, max_position)), Unit)]
             ELSE IF align_end
                  THEN [ok |-> TRUE, offset |-> IntOf(Max2(0, position), Unit)]
                  ELSE [ok |-> TRUE,
                        offset |-> IntOf(Max2(0, Min2(position, Unit * (D - E))), Unit)]

\* Faulty variant: without a margin the centred position is not clamped.
_calculate_percentage_center_position_NoClamp(D, E, pct, pad) ==
    IF ~_validate_percentage(pct) THEN InvalidPercentage
    ELSE LET position == 2 * D * pct.num - PctDen * E
         IN  IF pad.given
             THEN IF ~_validate_percentage(pad) THEN InvalidPercentage
                  ELSE [ok |-> TRUE,
                        offset |-> IntOf(Max2(2 * D * pad.num,
                                              Min2(position,
                                                   Unit * (D - E) - 2 * D * pad.num)), Unit)]
             ELSE [ok |-> TRUE, offset |-> IntOf(position, Unit)]

\* _calculate_percentage_center_position
_calculate_percentage_center_position(D, E, pct, pad) ==
    IF ~_validate_percentage(pct) THEN InvalidPercentage
    ELSE LET position == 2 * D * pct.num - PctDen * E
         IN  IF pad.given
             THEN IF ~_validate_percentage(pad) THEN InvalidPercentage
                  ELSE LET padding_pixels == 2 * D * pad.num
                           min_position == padding_pixels
                           max_position == Unit * (D - E) - padding_pixels
                       IN  [ok |-> TRUE,
                            offset |-> IntOf(Max2(min_position,
                                                  Min2(position, max_position)), Unit)]
             ELSE [ok |-> TRUE,
                   offset |-> IntOf(Max2(0, Min2(position, Unit * (D - E))), Unit)]

Pending == [ok |-> FALSE, offset |-> -1]

LayoutInit ==
    /\ Uploaded(PdfDocument)
    /\ calc \in {[op |-> "layout", variant |-> v, D |-> d, E |-> e, pct |-> pc,
                  pad |-> pd, out |-> Pending] :
                    v \in {"start", "end", "center"}, d \in 1..MaxDim, e \in 1..MaxDim,
                    pc \in Percentages, pd \in Paddings}

\* A call of _calculate_percentage_position.
CalculatePosition ==
    /\ calc.op = "layout" /\ calc.variant \in {"start", "end"} /\ calc.out = Pending
    /\ calc' = [calc EXCEPT !.out = _calculate_percentage_position(
                                       calc.D, calc.E, calc.pct, calc.pad,
                                       calc.variant = "end")]
    /\ UNCHANGED storeVars

\* A call of _calculate_percentage_center_position.
CalculateCenterPosition ==
    /\ calc.op = "layout" /\ calc.variant = "center" /\ calc.out = Pending
    /\ calc' = [calc EXCEPT !.out = _calculate_percentage_center_position(
                                       calc.D, calc.E, calc.pct, calc.pad)]
    /\ UNCHANGED storeVars

LayoutNext == CalculatePosition \/ CalculateCenterPosition

LayoutSpec == LayoutInit /\ [][LayoutNext]_vars

\* The inputs of the clamp contract: E <= D, p in [0,1], a margin m in
\* [0, 0.5) supplied.
ClampInputs ==
    /\ calc.out # Pending
    /\ calc.E <= calc.D
    /\ _validate_percentage(calc.pct)
    /\ calc.pad.given /\ calc.pad.numeric
    /\ calc.pad.num >= 0 /\ 2 * calc.pad.num < PctDen

-----------------------------------------------------------------------------
(* The department list renderer on its own *)

\* Longest department list and longest entry (in words) explored.
MaxDepts == 2

MaxWords == 2

\* Rendered widths of a word, of the space between two words and of the
\* bullet glyph, in pixels, as measure() reports them for the chosen font.
WordWidths == {4, 9}

SpaceWidth == 2

bullet_w == 6

padding_px == 10

bullet_gap_px == 8

bullet_area_px == bullet_w + bullet_gap_px

\* max_width_px values passed by the callers.
MaxWidths == {40, 48}

\* A department: whether it holds an Arabic character, and the widths of
\* the words dept.split() yields (none for a blank entry).
Departments ==
    {[ar |-> a, words |-> w] :
        a \in BOOLEAN, w \in UNION {[1..k -> WordWidths] : k \in 0..MaxWords}}

DepartmentLists == UNION {[1..k -> Departments] : k \in 1..MaxDepts}

RECURSIVE SumWidths(_)
SumWidths(ws) == IF ws = <<>> THEN 0 ELSE Head(ws) + SumWidths(Tail(ws))

\* measure(shape(text))[0] of words joined by single spaces.
measure(ws) == IF ws = <<>> THEN 0 ELSE SumWidths(ws) + SpaceWidth * (Len(ws) - 1)

\* wrap_logical_text: the loop over words, then the trailing flush.
RECURSIVE WrapWords(_, _, _, _)
WrapWords(words, current, lines, max_line_width) ==
    IF words = <<>>
    THEN IF current # <<>> THEN Append(lines, current) ELSE lines
    ELSE LET candidate == Append(current, Head(words))
         IN  IF measure(candidate) <= max_line_width
             THEN WrapWords(Tail(words), candidate, lines, max_line_width)
             ELSE IF current # <<>>
                  THEN WrapWords(Tail(words), <<Head(words)>>,
                                 Append(lines, current), max_line_width)
                  ELSE WrapWords(Tail(words), <<>>,
                                 Append(lines, candidate), max_line_width)

\* Faulty variant: all words are kept on one line.
wrap_logical_text_NoWrap(words, max_line_width) ==
    IF words = <<>> THEN <<>> ELSE <<words>>

wrap_logical_text(words, max_line_width) == WrapWords(words, <<>>, <<>>, max_line_width)

\* The rendered_lines of one department (the body of the loop over
\* departments).
LinesOf(dept, d, max_width_px) ==
    IF dept.words = <<>> THEN <<>>
    ELSE LET max_line_width ==
                 IF dept.ar THEN max_width_px - (padding_px * 2) - bullet_area_px
                            ELSE max_width_px - (padding_px * 2)
             logical_lines == wrap_logical_text(dept.words, max_line_width)
         IN  [idx \in 1..Len(logical_lines) |->
                 [dept |-> d, is_ar |-> dept.ar, is_first |-> idx = 1,
                  words |-> logical_lines[idx]]]

RECURSIVE RenderedLines(_, _, _)
RenderedLines(departments, d, max_width_px) ==
    IF d > Len(departments) THEN <<>>
    ELSE LinesOf(departments[d], d, max_width_px)
             \o RenderedLines(departments, d + 1, max_width_px)

\* The drawing loop: for an Arabic line the bullet is drawn at bullet_x;
\* for another line the bullet is part of the text of the first line only.
DrawLine(line) ==
    [dept |-> line.dept, is_first |-> line.is_first,
     bullet |-> IF line.is_ar THEN TRUE ELSE line.is_first]

\* return None
NoImage == [image |-> FALSE, lines |-> <<>>]

\* _render_department_list_image: the lines drawn on the surface, or no
\* image.
_render_department_list_image(departments, max_width_px) ==
    LET rendered_lines == RenderedLines(departments, 1, max_width_px)
    IN  IF rendered_lines = <<>> THEN NoImage
        ELSE [image |-> TRUE,
              lines |-> [i \in 1..Len(rendered_lines) |-> DrawLine(rendered_lines[i])]]

RenderInit ==
    /\ Uploaded(PdfDocument)
    /\ calc \in {[op |-> "render", departments |-> ds, max_width_px |-> w,
                  done |-> FALSE, out |-> NoImage] :
                    ds \in DepartmentLists, w \in MaxWidths}

RenderDepartmentList ==
    /\ calc.op = "render" /\ ~calc.done
    /\ calc' = [calc EXCEPT !.done = TRUE,
                            !.out = _render_department_list_image(
                                        calc.departments, calc.max_width_px)]
    /\ UNCHANGED storeVars

RenderNext == RenderDepartmentList

RenderSpec == RenderInit /\ [][RenderNext]_vars

\* C19: in a list of Arabic entries only, the bullet is drawn on the first
\* line of each entry and on no other line of it.
C19_ArabicBulletFirstLineOnly ==
    (/\ calc.done /\ calc.out.image
     /\ \A d \in 1..Len(calc.departments) : calc.departments[d].ar) =>
        \A i \in 1..Len(calc.out.lines) :
            calc.out.lines[i].bullet <=> calc.out.lines[i].is_first

-----------------------------------------------------------------------------
(* PDF stamping geometry on its own *)

\* Longest PDF explored, in pages.
MaxPages == 2

\* Media box widths and heights explored, in points.
PageDims == {72, 100, 145}

PageSizes == {[w |-> w, h |-> h] : w \in PageDims, h \in PageDims}

PdfFiles == UNION {[1..k -> PageSizes] : k \in 1..MaxPages}

\* convert_from_bytes(..., dpi=150) and the 72 points of an inch.
RasterDpi == 150

PointsPerInch == 72

\* int(points * 150 / 72)
ToPixels(points) == (points * RasterDpi) \div PointsPerInch

\* The pixel sizes the rasterizer may return for a page: the computed
\* size, one pixel more or less in either direction (its own rounding),
\* and the transposed size (a rotated page).
NativeSizes(page) ==
    {[w |-> ToPixels(page.w) + dx, h |-> ToPixels(page.h) + dy] :
        dx \in -1..1, dy \in -1..1}
        \cup {[w |-> ToPixels(page.h), h |-> ToPixels(page.w)]}

PdfFailure == [ok |-> FALSE, raster |-> [w |-> 0, h |-> 0], resized |-> FALSE, pages |-> <<>>]

\* Pages 2..n of the source, added to the output as they are; source is
\* the index of the page object in the source document.
RemainingPages(pages) ==
    [k \in 1..(Len(pages) - 1) |->
        [w |-> pages[k + 1].w, h |-> pages[k + 1].h, source |-> k + 1]]

\* Faulty variant: the remaining pages are not merged back.
_add_signature_to_pdf_FirstPageOnly(pages, images) ==
    IF images = <<>> THEN PdfFailure
    ELSE [ok |-> TRUE, raster |-> [w |-> ToPixels(pages[1].w), h |-> ToPixels(pages[1].h)],
          resized |-> images[1] # [w |-> ToPixels(pages[1].w), h |-> ToPixels(pages[1].h)],
          pages |-> <<[w |-> pages[1].w, h |-> pages[1].h, source |-> 0]>>]

\* Faulty variant: the raster keeps its native size and the page size is
\* derived from the raster.
_add_signature_to_pdf_NativeSize(pages, images) ==
    IF images = <<>> THEN PdfFailure
    ELSE LET first_page_img == images[1]
         IN  [ok |-> TRUE, raster |-> first_page_img, resized |-> FALSE,
              pages |-> <<[w |-> (first_page_img.w * PointsPerInch) \div RasterDpi,
                           h |-> (first_page_img.h * PointsPerInch) \div RasterDpi,
                           source |-> 0]>>
                            \o RemainingPages(pages)]

\* _add_signature_to_pdf, its page geometry: images is what
\* convert_from_bytes returned for the first page.  An output page with
\* source 0 is the page rebuilt from the stamped raster.
_add_signature_to_pdf(pages, images) ==
    IF images = <<>> THEN PdfFailure
    ELSE LET first_page_width == pages[1].w
             first_page_height == pages[1].h
             width_px == ToPixels(first_page_width)
             height_px == ToPixels(first_page_height)
             resize == images[1] # [w |-> width_px, h |-> height_px]
             first_page_img == IF resize THEN [w |-> width_px, h |-> height_px]
                                         ELSE images[1]
             modified_first_page ==
                 [w |-> first_page_width, h |-> first_page_height, source |-> 0]
         IN  [ok |-> TRUE, raster |-> first_page_img, resized |-> resize,
              pages |-> <<modified_first_page>> \o RemainingPages(pages)]

PdfInit ==
    /\ Uploaded(PdfDocument)
    /\ calc \in {[op |-> "pdf", pages |-> ps, images |-> im, done |-> FALSE,
                  out |-> PdfFailure] :
                    ps \in PdfFiles,
                    im \in {<<>>} \cup UNION {{<<n>> : n \in NativeSizes(pg)} : pg \in PageSizes}}
    /\ calc.images # <<>> => calc.images[1] \in NativeSizes(calc.pages[1])

AddSignatureToPdf ==
    /\ calc.op = "pdf" /\ ~calc.done
    /\ calc' = [calc EXCEPT !.done = TRUE,
                            !.out = _add_signature_to_pdf(calc.pages, calc.images)]
    /\ UNCHANGED storeVars

PdfNext == AddSignatureToPdf

PdfSpec == PdfInit /\ [][PdfNext]_vars

-----------------------------------------------------------------------------
(* Image stamping, pixel mode and container format, on its own *)

\* img.format values of the files Image.open can read, and the img.mode
\* values each of them can be opened in.
ImageFormats == {"JPEG", "PNG", "BMP", "GIF", "TIFF", "WEBP"}

ModesOf(format) ==
    CASE format = "JPEG" -> {"L", "RGB", "CMYK"}
      [] format = "PNG"  -> {"1", "L", "LA", "P", "RGB", "RGBA"}
      [] format = "BMP"  -> {"1", "L", "P", "RGB"}
      [] format = "GIF"  -> {"L", "P"}
      [] format = "TIFF" -> {"1", "L", "LA", "P", "RGB", "RGBA", "CMYK"}
      [] format = "WEBP" -> {"RGB", "RGBA"}

\* The formats the code keeps as they are.
KeptFormats == {"JPEG", "PNG", "BMP", "GIF", "TIFF"}

ImageFailure == [ok |-> FALSE, mode |-> "", format |-> "", exif |-> FALSE, stamped |-> FALSE]

\* img.save: the JPEG encoder refuses an image with an alpha channel.
CanSave(mode, format) == ~(format = "JPEG" /\ mode \in {"RGBA", "LA"})

\* _add_signature_to_image, its mode and format handling.
_add_signature_to_image(img, artifact) ==
    LET original_mode == img.mode
        original_format == img.format
        working == "RGBA"
        mode == IF original_mode # "RGBA" /\ original_mode \in {"RGB", "L", "P"}
                THEN original_mode ELSE working
        img_format == IF original_format \in KeptFormats THEN original_format
                      ELSE IF mode = "RGBA" THEN "PNG" ELSE "JPEG"
    IN  IF ~CanSave(mode, img_format) THEN ImageFailure
        ELSE [ok |-> TRUE, mode |-> mode, format |-> img_format,
              exif |-> img.exif /\ img_format \in {"JPEG", "TIFF"},
              stamped |-> artifact]

ImageInit ==
    /\ Uploaded([a \in Attachments |-> ".png"])
    /\ calc \in {[op |-> "image", img |-> [mode |-> m, format |-> f, exif |-> x],
                  artifact |-> art, done |-> FALSE, out |-> ImageFailure] :
                    m \in UNION {ModesOf(g) : g \in ImageFormats}, f \in ImageFormats,
                    x \in BOOLEAN, art \in BOOLEAN}
    /\ calc.img.mode \in ModesOf(calc.img.format)

AddSignatureToImage ==
    /\ calc.op = "image" /\ ~calc.done
    /\ calc' = [calc EXCEPT !.done = TRUE,
                            !.out = _add_signature_to_image(calc.img, calc.artifact)]
    /\ UNCHANGED storeVars

ImageNext == AddSignatureToImage

ImageSpec == ImageInit /\ [][ImageNext]_vars

\* C22: the stamped image is saved in the mode and in the container format
\* the input had.
C22_ModeAndFormatPreserved ==
    (calc.op = "image" /\ calc.done) =>
        /\ calc.out.ok
        /\ calc.out.mode = calc.img.mode
        /\ calc.out.format = calc.img.format

-----------------------------------------------------------------------------
(* Two signing requests on the same attachment, step by step *)

\* The state of this study is held in calc: the attachment's row, the
\* files of the storage (a file name is an index of disk), the Signature
\* table, the document status and, for each request, its position in
\* SignatureViewSet.create, its in-memory copy of the row and the bytes
\* its agent read.

\* The two requests; each is also the id of the Signature it creates.
Requesters == {1, 2}

\* The Signature of an earlier, completed request.
PriorSignature == 0

\* The artifacts request r stamps: a signature image and nothing else.
ArtifactOf(r) ==
    [sig |-> IF r = 1 THEN "img1" ELSE IF r = 2 THEN "img2" ELSE "img0",
     com |-> NoArtifact, depts |-> <<>>]

\* The row of a freshly uploaded attachment whose file is disk[1].
FreshRow == [file |-> 1, original_file |-> 0, version_number |-> 1, is_signed |-> FALSE]

Idle == [r \in Requesters |-> "validate"]

\* The attachment before the two requests arrive: never signed, or signed
\* once by an earlier request (backup in disk[2], stamped file in disk[3]).
ConcStart(e, signed) ==
    IF signed
    THEN [op |-> "conc", ext |-> e,
          row |-> [file |-> 3, original_file |-> 2, version_number |-> 1, is_signed |-> TRUE],
          disk |-> <<Pristine(1), Pristine(1), Stamp(Pristine(1), ArtifactOf(PriorSignature))>>,
          sigs |-> {PriorSignature}, status |-> "signed",
          pc |-> Idle, local |-> [r \in Requesters |-> FreshRow],
          found |-> [r \in Requesters |-> FALSE],
          bytes |-> [r \in Requesters |-> NoFile],
          initial |-> 1, increments |-> 0]
    ELSE [op |-> "conc", ext |-> e,
          row |-> FreshRow,
          disk |-> <<Pristine(1)>>,
          sigs |-> {}, status |-> "pending",
          pc |-> Idle, local |-> [r \in Requesters |-> FreshRow],
          found |-> [r \in Requesters |-> FALSE],
          bytes |-> [r \in Requesters |-> NoFile],
          initial |-> 1, increments |-> 0]

ConcInit ==
    /\ Uploaded(PdfDocument)
    /\ calc \in {ConcStart(e, signed) : e \in {".pdf", ".png"}, signed \in BOOLEAN}

At(r, label) == calc.op = "conc" /\ calc.pc[r] = label

\* serializer.is_valid(): the attachment row is read into the request's
\* own instance.
Validate(r) ==
    /\ At(r, "validate")
    /\ calc' = [calc EXCEPT !.local[r] = calc.row, !.pc[r] = "exists"]
    /\ UNCHANGED storeVars

\* existing_signatures.exists()
ExistsCheck(r) ==
    /\ At(r, "exists")
    /\ calc' = [calc EXCEPT !.found[r] = calc.sigs # {}, !.pc[r] = "backup"]
    /\ UNCHANGED storeVars

\* if not attachment.original_file: original_file.save(..., save=False),
\* a copy of the current file under a new name.
Backup(r) ==
    /\ At(r, "backup")
    /\ IF calc.local[r].original_file = 0
       THEN calc' = [calc EXCEPT
                        !.disk = Append(@, calc.disk[calc.local[r].file]),
                        !.local[r].original_file = Len(calc.disk) + 1,
                        !.pc[r] = IF calc.found[r] THEN "restore" ELSE "save_backup"]
       ELSE calc' = [calc EXCEPT
                        !.pc[r] = IF calc.found[r] THEN "restore" ELSE "create"]
    /\ UNCHANGED storeVars

\* First-signature branch: attachment.save() after the backup.
SaveBackup(r) ==
    /\ At(r, "save_backup")
    /\ calc' = [calc EXCEPT !.row = calc.local[r], !.pc[r] = "create"]
    /\ UNCHANGED storeVars

\* shutil.copy2(original_path, current_path)
Restore(r) ==
    /\ At(r, "restore")
    /\ calc' = [calc EXCEPT
                   !.disk[calc.local[r].file] = calc.disk[calc.local[r].original_file],
                   !.pc[r] = "delete"]
    /\ UNCHANGED storeVars

\* existing_signatures.delete()
DeletePrior(r) ==
    /\ At(r, "delete")
    /\ calc' = [calc EXCEPT !.sigs = {}, !.pc[r] = "increment"]
    /\ UNCHANGED storeVars

\* attachment.version_number += 1; attachment.save()
Increment(r) ==
    /\ At(r, "increment")
    /\ LET mine == [calc.local[r] EXCEPT !.version_number = @ + 1]
       IN  calc' = [calc EXCEPT !.local[r] = mine, !.row = mine,
                                !.increments = @ + 1, !.pc[r] = "create"]
    /\ UNCHANGED storeVars

\* serializer.save(signed_by=request.user); the document has no other
\* attachment, so the sibling loop has nothing to do.
CreateSignature(r) ==
    /\ At(r, "create")
    /\ calc' = [calc EXCEPT !.sigs = @ \cup {r}, !.pc[r] = "agent"]
    /\ UNCHANGED storeVars

\* process_document picks the attachment: for a PDF the request's own
\* instance, for an image the rows document.attachments.all() reads now.
AgentSelect(r) ==
    /\ At(r, "agent")
    /\ calc' = [calc EXCEPT
                   !.local[r] = IF _is_pdf(calc.ext) THEN @ ELSE calc.row,
                   !.pc[r] = "read"]
    /\ UNCHANGED storeVars

\* with attachment.file.open('rb') as f: file_content = f.read()
ReadFile(r) ==
    /\ At(r, "read")
    /\ calc' = [calc EXCEPT !.bytes[r] = calc.disk[calc.local[r].file], !.pc[r] = "write"]
    /\ UNCHANGED storeVars

\* The stamped bytes are stored under a new name and the whole row is
\* saved with is_signed set.
WriteFile(r) ==
    /\ At(r, "write")
    /\ LET mine == [calc.local[r] EXCEPT !.file = Len(calc.disk) + 1, !.is_signed = TRUE]
       IN  calc' = [calc EXCEPT
                       !.disk = Append(@, Stamp(calc.bytes[r], ArtifactOf(r))),
                       !.local[r] = mine, !.row = mine, !.pc[r] = "status"]
    /\ UNCHANGED storeVars

\* self.document.status = 'signed'; self.document.save(); 201 Created
SetStatus(r) ==
    /\ At(r, "status")
    /\ calc' = [calc EXCEPT !.status = "signed", !.pc[r] = "done"]
    /\ UNCHANGED storeVars

ConcNext ==
    \E r \in Requesters :
        \/ Validate(r)
        \/ ExistsCheck(r)
        \/ Backup(r)
        \/ SaveBackup(r)
        \/ Restore(r)
        \/ DeletePrior(r)
        \/ Increment(r)
        \/ CreateSignature(r)
        \/ AgentSelect(r)
        \/ ReadFile(r)
        \/ WriteFile(r)
        \/ SetStatus(r)

ConcSpec == ConcInit /\ [][ConcNext]_vars

BothDone == calc.op = "conc" /\ \A r \in Requesters : calc.pc[r] = "done"

C24_OneSignatureAfterRace ==
    BothDone => Cardinality(calc.sigs) = 1

\* C25: the stored version_number never decreases, and after both requests
\* it is the initial value plus the number of increments performed.
C25_NoLostIncrement ==
    [][calc.op = "conc" =>
          /\ calc'.row.version_number >= calc.row.version_number
          /\ (\A r \in Requesters : calc'.pc[r] = "done") =>
                calc'.row.version_number = calc'.initial + calc'.increments]_vars

-----------------------------------------------------------------------------
(* The layout calculator without a margin *)

\* The unclamped position of a finished layout call, times Unit.
Unclamped ==
    CASE calc.variant = "start"  -> 2 * calc.D * calc.pct.num
      [] calc.variant = "end"    -> 2 * calc.D * calc.pct.num - Unit * calc.E
      [] calc.variant = "center" -> 2 * calc.D * calc.pct.num - PctDen * calc.E

\* C26: with no margin, E <= D and p in [0,1], the offset lies in
\* [0, D - E] for each variant, and is the unclamped value rounded down
\* whenever that value lies in [0, D - E].
C26_NoMarginClamp ==
    (/\ calc.op = "layout" /\ calc.out # Pending
     /\ ~calc.pad.given
     /\ calc.E <= calc.D
     /\ calc.pct.numeric /\ 0 <= calc.pct.num /\ calc.pct.num <= PctDen) =>
        /\ calc.out.ok
        /\ 0 <= calc.out.offset
        /\ calc.out.offset <= calc.D - calc.E
        /\ (0 <= Unclamped /\ Unclamped <= Unit * (calc.D - calc.E)) =>
              /\ calc.out.offset * Unit <= Unclamped
              /\ Unclamped < (calc.out.offset + 1) * Unit

\* C26 witness: a centred element at p = 1 without a margin was pulled
\* back to D - E.
C26_Witness ==
    /\ calc.op = "layout" /\ calc.out # Pending
    /\ calc.variant = "center" /\ ~calc.pad.given
    /\ calc.E < calc.D
    /\ calc.pct.numeric /\ calc.pct.num = PctDen
    /\ calc.out.ok /\ calc.out.offset = calc.D - calc.E

-----------------------------------------------------------------------------
(* Word wrapping on its own *)

\* Longest text explored, in words.
MaxWrapWords == 4

\* Word widths explored: those of the renderer study and one wider than
\* every budget.
WrapWidths == WordWidths \cup {30}

\* The max_line_width values the renderer passes: the usable width with
\* and without the bullet area.
Budgets == {w - (padding_px * 2) - r : w \in MaxWidths, r \in {0, bullet_area_px}}

WrapInit ==
    /\ Uploaded(PdfDocument)
    /\ calc \in {[op |-> "wrap", words |-> ws, max_line_width |-> b,
                  done |-> FALSE, lines |-> <<>>] :
                    ws \in UNION {[1..k -> WrapWidths] : k \in 0..MaxWrapWords},
                    b \in Budgets}

\* A call of wrap_logical_text.
WrapText ==
    /\ calc.op = "wrap" /\ ~calc.done
    /\ calc' = [calc EXCEPT !.done = TRUE,
                            !.lines = wrap_logical_text(calc.words, calc.max_line_width)]
    /\ UNCHANGED storeVars

WrapNext == WrapText

WrapSpec == WrapInit /\ [][WrapNext]_vars

\* ' '.join(lines).split()
RECURSIVE JoinLines(_)
JoinLines(lines) == IF lines = <<>> THEN <<>> ELSE Head(lines) \o JoinLines(Tail(lines))

\* C27: the emitted lines joined give the original words; a line of two
\* or more words measures at most the budget; no line is empty; a word
\* wider than the budget stands alone on its line.
C27_WrapKeepsWords ==
    (calc.op = "wrap" /\ calc.done) =>
        /\ JoinLines(calc.lines) = calc.words
        /\ \A i \in 1..Len(calc.lines) :
              /\ Len(calc.lines[i]) >= 1
              /\ Len(calc.lines[i]) >= 2 => measure(calc.lines[i]) <= calc.max_line_width
              /\ (\E j \in 1..Len(calc.lines[i]) :
                      calc.lines[i][j] > calc.max_line_width) => Len(calc.lines[i]) = 1

\* C27 witness: a text with a word wider than the budget between two
\* words that fit was wrapped into three lines.
C27_Witness ==
    /\ calc.op = "wrap" /\ calc.done
    /\ Len(calc.words) = 3
    /\ calc.words[1] <= calc.max_line_width
    /\ calc.words[2] > calc.max_line_width
    /\ calc.words[3] <= calc.max_line_width
    /\ Len(calc.lines) = 3
    /\ calc.lines[2] = <<calc.words[2]>>

-----------------------------------------------------------------------------
(* Placing the comments beside the department list *)

PADDING_PERCENTAGE == 0

COMMENTS_VERTICAL_GAP_PIXELS == 0

DEPARTMENT_LIST_SIDE_GAP_PIXELS == 0

\* Page sizes explored, in pixels.
PageWidths == {20, 40}

PageHeights == {20, 30}

\* The rendered department list: at most int(width * 0.30) wide.
DeptImages(W) == {[w |-> w, h |-> 5] : w \in {2, 5, (W * 3) \div 10}}

\* The comments after _resize_image(..., scale_factor=0.5): int(width * 0.5)
\* wide, as high as the aspect ratio of the uploaded image makes them.
CommentImages(W) == {[present |-> TRUE, w |-> W \div 2, h |-> h] : h \in {4, 12, 60}}

\* The resized signature, or none.
SignatureImages == {[present |-> FALSE, h |-> 0], [present |-> TRUE, h |-> 5]}

NoComments == [present |-> FALSE, w |-> 0, h |-> 0]

\* int(dimension * PADDING_PERCENTAGE)
PagePadding(dimension) == dimension * PADDING_PERCENTAGE

\* _resize_to_max_width
_resize_to_max_width(image, max_width_px) ==
    IF ~image.present THEN NoComments
    ELSE IF max_width_px <= 0 THEN NoComments
    ELSE IF image.w <= max_width_px THEN image
    ELSE [present |-> TRUE, w |-> max_width_px,
          h |-> Max2(1, (image.h * max_width_px) \div image.w)]

\* _calculate_percentage_position(D, E, 0.90, padding_percentage=0,
\* align_bottom=True): the position, carried times 10, clamped to
\* [0, D - E].
BottomAligned(D, E) == IntOf(Max2(0, Min2(9 * D - 10 * E, 10 * (D - E))), 10)

\* _calculate_percentage_center_position(D, E, 0.50, padding_percentage=0):
\* the position, carried times 2, clamped to [0, D - E].
Centered(D, E) == IntOf(Max2(0, Min2(D - E, 2 * (D - E))), 2)

NotPlaced ==
    [pasted |-> FALSE, x |-> 0, y |-> 0, w |-> 0, h |-> 0, dept_x |-> 0,
     place_right |-> FALSE, available_left |-> 0, available_right |-> 0]

\* The block 'if dept: ... if comm: ...' of _add_signature_to_pdf and
\* _add_signature_to_image.
PlaceComments(W, H, dept, comm, sig) ==
    LET padding == PagePadding(W)
        block_height == Max2(dept.h, comm.h)
        signature_y == BottomAligned(H, sig.h)
        dept_x == Centered(W, dept.w)
        dept_y == IF sig.present
                  THEN Max2(PagePadding(H),
                            signature_y - block_height - COMMENTS_VERTICAL_GAP_PIXELS)
                           + Max2(0, IntOf(block_height - dept.h, 2))
                  ELSE BottomAligned(H, dept.h)
        gap == DEPARTMENT_LIST_SIDE_GAP_PIXELS
        available_right == (W - padding) - (dept_x + dept.w + gap)
        available_left == (dept_x - gap) - padding
        place_right == available_right >= available_left
        available == IF place_right THEN available_right ELSE available_left
        resized == _resize_to_max_width(comm, available)
    IN  IF ~resized.present
        THEN [NotPlaced EXCEPT !.dept_x = dept_x, !.place_right = place_right,
                               !.available_left = available_left,
                               !.available_right = available_right]
        ELSE LET comm_x == IF place_right THEN dept_x + dept.w + gap
                                          ELSE dept_x - gap - resized.w
                 comm_y == (IF sig.present
                            THEN signature_y - block_height - COMMENTS_VERTICAL_GAP_PIXELS
                            ELSE dept_y)
                               + Max2(0, IntOf(block_height - resized.h, 2))
             IN  [pasted |-> TRUE,
                  x |-> Max2(padding, Min2(comm_x, W - resized.w - padding)),
                  y |-> Max2(PagePadding(H),
                             Min2(comm_y, H - resized.h - PagePadding(H))),
                  w |-> resized.w, h |-> resized.h, dept_x |-> dept_x,
                  place_right |-> place_right,
                  available_left |-> available_left,
                  available_right |-> available_right]

PlaceInit ==
    /\ Uploaded(PdfDocument)
    /\ calc \in {[op |-> "place", W |-> pw, H |-> ph, dept |-> d, comm |-> c, sig |-> sg,
                  done |-> FALSE, out |-> NotPlaced] :
                    pw \in PageWidths, ph \in PageHeights,
                    d \in UNION {DeptImages(x) : x \in PageWidths},
                    c \in UNION {CommentImages(x) : x \in PageWidths},
                    sg \in SignatureImages}
    /\ calc.dept \in DeptImages(calc.W)
    /\ calc.comm \in CommentImages(calc.W)

PasteComments ==
    /\ calc.op = "place" /\ ~calc.done
    /\ calc' = [calc EXCEPT !.done = TRUE,
                            !.out = PlaceComments(calc.W, calc.H, calc.dept,
                                                  calc.comm, calc.sig)]
    /\ UNCHANGED storeVars

PlaceNext == PasteComments

PlaceSpec == PlaceInit /\ [][PlaceNext]_vars

\* The horizontal part of C28: the side with more room is chosen (right
\* when equal), the comments are at most as wide as that room, lie
\* between the left and right margins and beside the department list.
PlacedBeside ==
    LET o == calc.out
        available == IF o.place_right THEN o.available_right ELSE o.available_left
    IN  /\ o.place_right <=> o.available_right >= o.available_left
        /\ o.pasted <=> available > 0
        /\ o.pasted =>
              /\ o.w <= available
              /\ PagePadding(calc.W) <= o.x
              /\ o.x + o.w <= calc.W - PagePadding(calc.W)
              /\ o.x >= o.dept_x + calc.dept.w \/ o.x + o.w <= o.dept_x

\* C28: the comments go to the side of the department list with more
\* room, scaled to that room, inside the page margins and beside the
\* list; with no room they are not pasted.
C28_CommentsBesideDepartments ==
    (calc.op = "place" /\ calc.done) =>
        /\ PlacedBeside
        /\ calc.out.pasted =>
              /\ PagePadding(calc.H) <= calc.out.y
              /\ calc.out.y + calc.out.h <= calc.H - PagePadding(calc.H)

-----------------------------------------------------------------------------
(* Failing requests *)

Undecodable(req) ==
    \/ _decode_signature(PayloadValue(req.signature_data)) = DecodeError
    \/ _decode_comments(PayloadValue(req.comments_data)) = DecodeError

\* C29: a request whose signature or comments payload cannot be decoded
\* fails and leaves file, is_signed and version_number of its target, the
\* Signature records, the version_number of the siblings and the document
\* status as they were.
C29_DecodeFailureChangesNothing ==
    [][(last'.target # 0 /\ requests' = requests + 1 /\ Undecodable(last'.body)) =>
          /\ last'.response = 500
          /\ file'[last'.target] = file[last'.target]
          /\ is_signed'[last'.target] = is_signed[last'.target]
          /\ version_number' = version_number
          /\ signatures' = signatures
          /\ status' = status]_vars

=============================================================================
